---- MODULE Spec2Model ----
(***************************************************************************)
(* Pool date-range management of the booking back end: create_pool and     *)
(* update_pool requests (src/api.py), the date-range reconciliation        *)
(* validate_service_pool_changes and the write-back                        *)
(* update_pool_date_ranges (src/crud.py).                                  *)
(*                                                                         *)
(* Dates are day numbers.  Only the order of dates is used by the code, so *)
(* the days are numbered relative to the day of the request: day           *)
(* current_date is datetime.now().date(), smaller numbers are in the past. *)
(* The model follows one pool: a client creates it and then sends one      *)
(* update request; the bookings held by the booking service are an         *)
(* arbitrary set of booked days fixed at the start.                        *)
(***************************************************************************)
EXTENDS Integers, Sequences, FiniteSets, TLC

\* ------------------------------------------------------------------ bounds
\* last day of the modelled calendar (days 0..MaxDate)
MaxDate == 2
\* longest list of date ranges a request carries
MaxLen == 2
\* longest list of date ranges handed to the overlap and gap checks alone
MaxRanges == 3
\* longest list of candidate rules of an availability request
MaxRules == 2

\* ------------------------------------------------------------- data model
\* end_date = None: open-ended range (schemas.py: Optional[date] = None)
None == -1
\* datetime.now().date() (crud.py:546): the day the request is handled
current_date == 1

Dates == 0 .. MaxDate
\* capacities are only compared with each other (old_capacity > new_capacity)
Capacities == {1, 2}

\* params.py
REDUCE_DATE_MESSAGE == "REDUCE_DATE_MESSAGE"
REDUCE_CAPACITY_MESSSAGE == "REDUCE_CAPACITY_MESSSAGE"
REDUCED_DATE_CAPACITY_MESSAGE == "REDUCED_DATE_CAPACITY_MESSAGE"
PAST_DATE_ERROR == "PAST_DATE_ERROR"
DATE_VALIDATION == "DATE_VALIDATION"
DATA_INSERT_SUCCESSFUL == "DATA_INSERT_SUCCESSFUL"
DATA_UPDATE_SUCCESSFUL == "DATA_UPDATE_SUCCESSFUL"
POOL_NOT_FOUND == "POOL_NOT_FOUND"

\* a row of pool_date_ranges / a PoolDateRangeCreate of a request
PoolDateRange(s, e, c) == [start_date |-> s, end_date |-> e, capacity |-> c]

Min(a, b) == IF a < b THEN a ELSE b

Reverse(s) == [k \in 1 .. Len(s) |-> s[Len(s) + 1 - k]]

\* ----------------------------------------------------- request validation
\* schemas.py: PoolDateRangeCreate.check_end_date
check_end_date(r) == r.end_date = None \/ ~(r.end_date < r.start_date)

\* schemas.py: PoolDateRangeCreate.check_capacity
check_capacity(r) == ~(r.capacity < 0)

\* the request body parses into PoolCreate / PoolUpdate
schema_ok(date_ranges) ==
    \A k \in 1 .. Len(date_ranges) :
        check_end_date(date_ranges[k]) /\ check_capacity(date_ranges[k])

\* crud.py convert_pool_date_ranges: strftime('%Y-%m-%d') keeps the order of
\* the dates; a missing end becomes '9999-12-31', later than every date
FarFuture == MaxDate + 1

\* variant: a missing end is passed on as it is
convert_pool_date_ranges_open_end_kept(pool_date_ranges) ==
    [k \in 1 .. Len(pool_date_ranges) |->
        [start_date |-> pool_date_ranges[k].start_date,
         end_date |-> pool_date_ranges[k].end_date]]

convert_pool_date_ranges(pool_date_ranges) ==
    [k \in 1 .. Len(pool_date_ranges) |->
        [start_date |-> pool_date_ranges[k].start_date,
         end_date |-> IF pool_date_ranges[k].end_date # None
                      THEN pool_date_ranges[k].end_date
                      ELSE FarFuture]]

\* DateRangeChecker.find_overlapping_ranges: every unordered pair of ranges
\* with start_A <= end_B and start_B <= end_A, as index pairs
find_overlapping_ranges(ranges) ==
    LET Pairs == {p \in (1 .. Len(ranges)) \X (1 .. Len(ranges)) : p[1] < p[2]}
        Hit(p) == /\ ranges[p[1]].start_date <= ranges[p[2]].end_date
                  /\ ranges[p[2]].start_date <= ranges[p[1]].end_date
    IN  {p \in Pairs : Hit(p)}

\* the ranges sorted by start (ties keep their input order)
SortByStart(ranges) ==
    LET n == Len(ranges)
        Before(j, i) == \/ ranges[j].start_date < ranges[i].start_date
                        \/ (ranges[j].start_date = ranges[i].start_date /\ j < i)
        Rank(i) == Cardinality({j \in 1 .. n : Before(j, i)}) + 1
    IN  [k \in 1 .. n |-> ranges[CHOOSE i \in 1 .. n : Rank(i) = k]]

\* DateRangeChecker.check_date_gaps: consecutive ranges, sorted by start,
\* whose starts lie more than one day after the previous end
check_date_gaps(ranges) ==
    LET sorted == SortByStart(ranges)
    IN  {k \in 1 .. Len(ranges) - 1 :
            sorted[k + 1].start_date > sorted[k].end_date + 1}

\* ------------------------------------------------------- booking service
\* str(start_date) / str(end_date) in the request payload: a date prints in
\* ISO form YYYY-MM-DD, a missing date prints as the text "None"
str(d) == IF d = None THEN [iso |-> FALSE, day |-> None]
                      ELSE [iso |-> TRUE, day |-> d]

\* the booking service's view: some booking lies on a day of [s, e]
BookingsIn(booked, s, e) == \E d \in booked : s <= d /\ d <= e

\* The answers one check_booking_available call can produce: the RPC raises,
\* or it returns the decoded JSON result.  A plain query reports whether
\* bookings exist in the range; the answer to a capacity_check query is
\* decided by the booking service and is left open here.
check_booking_available(booked, start_date, end_date, capacity, capacity_check) ==
    LET data == [start_date |-> str(start_date), end_date |-> str(end_date),
                 capacity |-> capacity, capacity_check |-> capacity_check]
        results ==
            IF capacity_check
            THEN {[is_booking_exists |-> b, is_capacity_check |-> c] :
                      b \in BOOLEAN, c \in BOOLEAN}
            ELSE {[is_booking_exists |-> BookingsIn(booked, start_date, end_date),
                   is_capacity_check |-> FALSE]}
    IN  {[raised |-> FALSE, data |-> data, result |-> r] : r \in results}
        \cup {[raised |-> TRUE, data |-> data,
               result |-> [is_booking_exists |-> FALSE, is_capacity_check |-> FALSE]]}

\* ---------------------------------------- validate_service_pool_changes
\* crud.py:547  if (end2 and end2 < current_date)
end_in_past(date_range) ==
    date_range.end_date # None /\ date_range.end_date < current_date

\* crud.py:550  if end2 and start2 > end2
start_after_end(date_range) ==
    date_range.end_date # None /\ date_range.start_date > date_range.end_date

\* variant: the comparison also counts an equal capacity as reduced
is_capacity_reduced_or_equal(old_range, date_range) ==
    old_range.capacity >= date_range.capacity

\* crud.py:554
is_capacity_reduced(old_range, date_range) ==
    old_range.capacity > date_range.capacity

\* crud.py:561  Scenario 1: start date changed
start_changed(old_range, date_range) ==
    date_range.start_date # old_range.start_date

\* crud.py:569  Scenario 2: end date changed (both ends present)
end_changed(old_range, date_range) ==
    /\ old_range.end_date # None
    /\ date_range.end_date # None
    /\ date_range.end_date # old_range.end_date

\* crud.py:557-570
date_range_changed(old_range, date_range) ==
    start_changed(old_range, date_range) \/ end_changed(old_range, date_range)

\* variant: the end side is examined before the start side
excluded_date_ranges_end_first(old_range, date_range) ==
    LET start1 == old_range.start_date
        end1 == old_range.end_date
        start2 == date_range.start_date
        end2 == date_range.end_date
    IN  (IF end_changed(old_range, date_range)
         THEN IF end2 < end1 THEN << <<end2, end1>> >>
                             ELSE << <<end1, end2>> >>
         ELSE << >>)
        \o
        (IF start_changed(old_range, date_range)
         THEN IF start2 < start1 THEN << <<start2, start1>> >>
                                 ELSE << <<start1, start2>> >>
         ELSE << >>)

\* crud.py:558-574: the (excluded_start, excluded_end) pairs of one position
excluded_date_ranges(old_range, date_range) ==
    LET start1 == old_range.start_date
        end1 == old_range.end_date
        start2 == date_range.start_date
        end2 == date_range.end_date
    IN  (IF start_changed(old_range, date_range)
         THEN IF start2 < start1 THEN << <<start2, start1>> >>
                                 ELSE << <<start1, start2>> >>
         ELSE << >>)
        \o
        (IF end_changed(old_range, date_range)
         THEN IF end2 < end1 THEN << <<end2, end1>> >>
                             ELSE << <<end1, end2>> >>
         ELSE << >>)

\* variant: the key is misspelt, so .get() always yields the default False
booking_exists_default(booking_check) == FALSE

\* crud.py:587  booking_check.get('is_booking_exists', False)
booking_exists(booking_check) == booking_check.result.is_booking_exists

\* variant: the re-query's answer is read under the key is_booking_exists
capacity_exceeded_by_booking(capacity_check) ==
    capacity_check.result.is_booking_exists

\* crud.py:599  capacity_check.get('is_capacity_check', False)
capacity_exceeded(capacity_check) == capacity_check.result.is_capacity_check

\* variant: the conflict is decided by is_capacity_check alone
capacity_conflict_by_flag(capacity_check) ==
    capacity_check.result.is_capacity_check

\* crud.py:625
capacity_conflict(capacity_check) ==
    capacity_check.result.is_booking_exists /\ capacity_check.result.is_capacity_check

\* variant: a booking-conflict rejection built without the confirmation flag
SoftReject_undialogued(message) ==
    [success |-> FALSE, dialogue |-> FALSE, message |-> message]

\* the three result dictionaries the function builds
HardReject(message) == [success |-> FALSE, dialogue |-> FALSE, message |-> message]
SoftReject(message) == [success |-> FALSE, dialogue |-> TRUE, message |-> message]
Accept == [success |-> TRUE, dialogue |-> FALSE]

\* bookkeeping of one reconciliation call: the oracle calls made so far, in
\* order, and the number of excluded sub-ranges computed so far
NoTrace == [calls |-> << >>, excluded |-> 0, positions |-> 0]

\* site: the call site, "excluded" (crud.py:579), "requery" (crud.py:590) or
\* "capacity_only" (crud.py:616)
Called(t, pos, site, answer) ==
    [t EXCEPT !.calls = Append(@, [pos |-> pos, site |-> site,
                                   data |-> answer.data,
                                   raised |-> answer.raised,
                                   result |-> answer.result])]

\* no dictionary was returned
NoDict == [none |-> TRUE]

Returned(ret, t) == [state |-> "returned", ret |-> ret, trace |-> t]
Raised(t) == [state |-> "raised", ret |-> NoDict, trace |-> t]

RECURSIVE validate_from(_, _, _, _, _)
RECURSIVE check_excluded(_, _, _, _, _, _)
RECURSIVE check_capacity_only(_, _, _, _, _)

\* variant: a capacity query that raises is sent a second time
check_capacity_only_retried(existing_ranges, date_ranges, booked, i, t) ==
    LET old_range == existing_ranges[i]
        date_range == date_ranges[i]
        answers == check_booking_available(
                       booked, old_range.start_date, old_range.end_date,
                       date_range.capacity, TRUE)
        After(capacity_check, t1) ==
            IF capacity_check.raised
            THEN {Raised(t1)}
            ELSE IF capacity_conflict(capacity_check)
            THEN {Returned(SoftReject(REDUCE_CAPACITY_MESSSAGE), t1)}
            ELSE validate_from(existing_ranges, date_ranges, booked, i + 1, t1)
    IN  IF is_capacity_reduced(old_range, date_range)
        THEN UNION {
               IF first.raised
               THEN UNION {After(second,
                                 Called(Called(t, i, "capacity_only", first),
                                        i, "capacity_only", second)) :
                           second \in answers}
               ELSE After(first, Called(t, i, "capacity_only", first)) :
               first \in answers}
        ELSE validate_from(existing_ranges, date_ranges, booked, i + 1, t)

\* crud.py:613-630: the standalone capacity check of position i, then on to
\* the next position
check_capacity_only(existing_ranges, date_ranges, booked, i, t) ==
    LET old_range == existing_ranges[i]
        date_range == date_ranges[i]
    IN  IF is_capacity_reduced(old_range, date_range)
        THEN UNION {
               IF capacity_check.raised
               THEN {Raised(Called(t, i, "capacity_only", capacity_check))}
               ELSE IF capacity_conflict(capacity_check)
               THEN {Returned(SoftReject(REDUCE_CAPACITY_MESSSAGE),
                              Called(t, i, "capacity_only", capacity_check))}
               ELSE validate_from(existing_ranges, date_ranges, booked, i + 1,
                                  Called(t, i, "capacity_only", capacity_check)) :
               capacity_check \in check_booking_available(
                   booked, old_range.start_date, old_range.end_date,
                   date_range.capacity, TRUE)}
        ELSE validate_from(existing_ranges, date_ranges, booked, i + 1, t)

\* crud.py:577-611: the queries for the excluded sub-ranges of position i,
\* from the j-th on
check_excluded(existing_ranges, date_ranges, booked, i, j, t) ==
    LET old_range == existing_ranges[i]
        date_range == date_ranges[i]
        excluded == excluded_date_ranges(old_range, date_range)
        Requery(t1) ==
            UNION {
              IF capacity_check.raised
              THEN {Raised(Called(t1, i, "requery", capacity_check))}
              ELSE IF capacity_exceeded(capacity_check)
              THEN {Returned(SoftReject(REDUCED_DATE_CAPACITY_MESSAGE),
                             Called(t1, i, "requery", capacity_check))}
              ELSE {Returned(SoftReject(REDUCE_DATE_MESSAGE),
                             Called(t1, i, "requery", capacity_check))} :
              capacity_check \in check_booking_available(
                  booked, excluded[j][1], excluded[j][2],
                  date_range.capacity, TRUE)}
    IN  IF ~date_range_changed(old_range, date_range) \/ j > Len(excluded)
        THEN check_capacity_only(existing_ranges, date_ranges, booked, i, t)
        ELSE UNION {
               IF booking_check.raised
               THEN {Raised(Called(t, i, "excluded", booking_check))}
               ELSE IF booking_exists(booking_check)
               THEN IF is_capacity_reduced(old_range, date_range)
                    THEN Requery(Called(t, i, "excluded", booking_check))
                    ELSE {Returned(SoftReject(REDUCE_DATE_MESSAGE),
                                   Called(t, i, "excluded", booking_check))}
               ELSE check_excluded(existing_ranges, date_ranges, booked, i, j + 1,
                                   Called(t, i, "excluded", booking_check)) :
               booking_check \in check_booking_available(
                   booked, excluded[j][1], excluded[j][2],
                   old_range.capacity, FALSE)}

\* crud.py:540-633: the loop over zip(existing_ranges, date_ranges), from
\* position i on
validate_from(existing_ranges, date_ranges, booked, i, t) ==
    IF i > Min(Len(existing_ranges), Len(date_ranges))
    THEN {Returned(Accept, t)}
    ELSE LET old_range == existing_ranges[i]
             date_range == date_ranges[i]
             t1 == [t EXCEPT !.positions = i]
         IN  IF end_in_past(date_range)
             THEN {Returned(HardReject(PAST_DATE_ERROR), t1)}
             ELSE IF start_after_end(date_range)
             THEN {Returned(HardReject(DATE_VALIDATION), t1)}
             ELSE check_excluded(
                      existing_ranges, date_ranges, booked, i, 1,
                      [t1 EXCEPT !.excluded =
                           @ + Len(excluded_date_ranges(old_range, date_range))])

\* variant: the old and the new ranges are paired by their order of start
\* date, not by their position in the two lists
validate_service_pool_changes_by_start(existing_ranges, date_ranges, booked) ==
    validate_from(SortByStart(existing_ranges), SortByStart(date_ranges),
                  booked, 1, NoTrace)

\* every way one call of validate_service_pool_changes can end
validate_service_pool_changes(existing_ranges, date_ranges, booked) ==
    validate_from(existing_ranges, date_ranges, booked, 1, NoTrace)

\* ------------------------------------------------ update_pool_date_ranges
\* validate_service_pool_changes was not called
NotValidated == [state |-> "none", ret |-> NoDict]

\* crud.py:125-207.  rows: the pool's active rows of pool_date_ranges, in the
\* order the query returns them.  Each outcome tells how the call ended
\* ("raised", "rejected": the validation dictionary is returned, "written":
\* the (deleted_ids, updated_data) pair is returned), the rows afterwards,
\* what validate_service_pool_changes returned (check_date_capacity) and
\* its trace.
\* crud.py:252-270: the row log_pool_date_range_history adds to
\* pool_date_range_history
log_pool_date_range_history(action_type, old_start_date, old_end_date, old_capacity) ==
    [action_type |-> action_type, old_start_date |-> old_start_date,
     old_end_date |-> old_end_date, old_capacity |-> old_capacity]

\* crud.py:156-168: one DELETE entry per existing range, with its old values
log_deleted(existing_ranges) ==
    [k \in 1 .. Len(existing_ranges) |->
        log_pool_date_range_history("DELETE", existing_ranges[k].start_date,
                                    existing_ranges[k].end_date,
                                    existing_ranges[k].capacity)]

\* crud.py:193-204 and 80-90: one INSERT entry per inserted range, without
\* old values
log_inserted(date_ranges) ==
    [k \in 1 .. Len(date_ranges) |->
        log_pool_date_range_history("INSERT", None, None, None)]

\* crud.py:155-207: the active rows are deleted and the proposed ranges
\* inserted, each with its history entry; (deleted_ids, updated_data) is
\* returned
replace_date_ranges(existing_ranges, date_ranges, check_date_capacity, t) ==
    [kind |-> "written", rows |-> date_ranges,
     existing_ranges |-> existing_ranges,
     logged |-> log_deleted(existing_ranges) \o log_inserted(date_ranges),
     check_date_capacity |-> check_date_capacity, trace |-> t]

\* variant: the DELETE entries are logged before the validation is consulted
validated_update_logged_first(existing_ranges, date_ranges, v) ==
    LET check_date_capacity == [state |-> v.state, ret |-> v.ret]
    IN  IF v.state = "raised"
        THEN [kind |-> "raised", rows |-> existing_ranges,
              existing_ranges |-> existing_ranges, logged |-> << >>,
              check_date_capacity |-> check_date_capacity,
              trace |-> v.trace]
        ELSE IF v.ret.success = FALSE
        THEN [kind |-> "rejected", rows |-> existing_ranges,
              existing_ranges |-> existing_ranges,
              logged |-> log_deleted(existing_ranges),
              check_date_capacity |-> check_date_capacity,
              trace |-> v.trace]
        ELSE replace_date_ranges(existing_ranges, date_ranges,
                                 check_date_capacity, v.trace)

\* variant: a failure of the validation is swallowed and the write goes on
validated_update_failure_swallowed(existing_ranges, date_ranges, v) ==
    LET check_date_capacity == [state |-> v.state, ret |-> v.ret]
    IN  IF v.state = "returned" /\ v.ret.success = FALSE
        THEN [kind |-> "rejected", rows |-> existing_ranges,
              existing_ranges |-> existing_ranges, logged |-> << >>,
              check_date_capacity |-> check_date_capacity,
              trace |-> v.trace]
        ELSE replace_date_ranges(existing_ranges, date_ranges,
                                 check_date_capacity, v.trace)

\* crud.py:151-207: the branch that validates first; v is the way
\* validate_service_pool_changes ended
validated_update(existing_ranges, date_ranges, v) ==
    LET check_date_capacity == [state |-> v.state, ret |-> v.ret]
    IN  IF v.state = "raised"
        THEN [kind |-> "raised", rows |-> existing_ranges,
              existing_ranges |-> existing_ranges, logged |-> << >>,
              check_date_capacity |-> check_date_capacity,
              trace |-> v.trace]
        ELSE IF v.ret.success = FALSE
        THEN [kind |-> "rejected", rows |-> existing_ranges,
              existing_ranges |-> existing_ranges, logged |-> << >>,
              check_date_capacity |-> check_date_capacity,
              trace |-> v.trace]
        ELSE replace_date_ranges(existing_ranges, date_ranges,
                                 check_date_capacity, v.trace)

\* variant: the flag is not consulted, every update is validated
update_pool_date_ranges_flag_ignored(rows, date_ranges, booked, check_date_ranges) ==
    {validated_update(rows, date_ranges, v) :
         v \in validate_service_pool_changes(rows, date_ranges, booked)}

update_pool_date_ranges(rows, date_ranges, booked, check_date_ranges) ==
    LET existing_ranges == rows
    IN  IF ~check_date_ranges
        THEN {validated_update(existing_ranges, date_ranges, v) :
                  v \in validate_service_pool_changes(
                            existing_ranges, date_ranges, booked)}
        ELSE {replace_date_ranges(existing_ranges, date_ranges,
                                  NotValidated, NoTrace)}

\* ------------------------------------------------------------- responses
\* FastAPI's answer to a body that fails the schema: {"detail": [...]}
ValidationError == [status |-> 422]

\* JSONResponse(status_code, {"success", "message", "translation_key"})
KeyedResponse(status, success, key) ==
    [status |-> status, success |-> success, message |-> key,
     translation_key |-> key]

\* except Exception: JSONResponse(400, {"success": False, "message": str(e)})
ExceptionResponse == [status |-> 400, success |-> FALSE, message |-> "str(e)"]

\* a dictionary returned from the handler is sent with status 200
DictResponse(d) == [status |-> 200] @@ d

\* api.py:34-44 and 84-94: the response that ends the request when the
\* proposed ranges overlap or leave a gap; NoFinding when they do neither
NoFinding == [status |-> 0]

\* the finding for the overlapping ranges at list positions p[1] < p[2]
OverlapFinding(p) == [kind |-> "overlap", a |-> p[1], b |-> p[2]]

\* the finding for the gap between the k-th range in start order and the next
GapFinding(k) == [kind |-> "gap", a |-> k, b |-> k + 1]

\* the first element of the list of overlaps: the pairs are listed by their
\* first, then their second position
first_overlap(overlaps) ==
    CHOOSE p \in overlaps :
        \A q \in overlaps : p[1] < q[1] \/ (p[1] = q[1] /\ p[2] <= q[2])

\* the first element of the list of gaps, which follows the start order
first_gap(gaps) == CHOOSE k \in gaps : \A j \in gaps : k <= j

\* JSONResponse(400, {"success": False, "message": <finding>, "translation_key"})
FindingResponse(key, finding) ==
    [status |-> 400, success |-> FALSE, message |-> finding,
     translation_key |-> key]

\* variant: the gap check is left out
partition_findings_overlaps_only(pool_date_ranges) ==
    LET date_ranges == convert_pool_date_ranges(pool_date_ranges)
        overlaps == find_overlapping_ranges(date_ranges)
    IN  IF overlaps # {}
        THEN FindingResponse("POOL_DATES_OVERLAPS",
                             OverlapFinding(first_overlap(overlaps)))
        ELSE NoFinding

\* variant: the check for overlaps is left out
partition_findings_gaps_only(pool_date_ranges) ==
    LET date_ranges == convert_pool_date_ranges(pool_date_ranges)
        gaps == check_date_gaps(date_ranges)
    IN  IF gaps # {}
        THEN FindingResponse("POOL_DATE_GAPS", GapFinding(first_gap(gaps)))
        ELSE NoFinding

\* "for overlap in overlaps: return ..." answers with the first finding
partition_findings(pool_date_ranges) ==
    LET date_ranges == convert_pool_date_ranges(pool_date_ranges)
        overlaps == find_overlapping_ranges(date_ranges)
        gaps == check_date_gaps(date_ranges)
    IN  IF overlaps # {}
        THEN FindingResponse("POOL_DATES_OVERLAPS",
                             OverlapFinding(first_overlap(overlaps)))
        ELSE IF gaps # {}
        THEN FindingResponse("POOL_DATE_GAPS", GapFinding(first_gap(gaps)))
        ELSE NoFinding

\* ------------------------------------------------------------- handlers
\* PoolUpdate.name = None: the request does not rename the pool
NoName == "None"

\* crud.py:95-122 update_pool, for the pool row found: the name it commits
update_pool(name, pool_update) ==
    IF pool_update.name # NoName THEN pool_update.name ELSE name

\* what a handler leaves behind: the response, the pool row, the rows of
\* pool_date_ranges, and the record of the reconciliation it ran
Outcome(response, exists, name, rows, u) ==
    [response |-> response, pool_exists |-> exists, pool_name |-> name,
     rows |-> rows, updated_date_range |-> u.kind,
     existing_ranges |-> u.existing_ranges, logged |-> u.logged,
     check_date_capacity |-> u.check_date_capacity, trace |-> u.trace]

\* update_pool_date_ranges was not called
NotUpdated == [kind |-> "none", existing_ranges |-> << >>, logged |-> << >>,
               check_date_capacity |-> NotValidated, trace |-> NoTrace]

\* crud.py:49-92: the rows inserted for a new pool and their history entries
create_pool_date_ranges(date_ranges) ==
    [rows |-> date_ranges, logged |-> log_inserted(date_ranges)]

\* api.py:24-72.  Helper.get_subscriber_details_from_cache and the event
\* producers are taken to succeed; no other pool holds the name.
create_pool_with_dates(exists, name, rows, pool) ==
    IF ~schema_ok(pool.date_ranges)
    THEN {Outcome(ValidationError, exists, name, rows, NotUpdated)}
    ELSE IF pool.date_ranges # << >> /\ partition_findings(pool.date_ranges) # NoFinding
    THEN {Outcome(partition_findings(pool.date_ranges), exists, name, rows,
                  NotUpdated)}
    ELSE IF pool.date_ranges # << >>
    THEN {Outcome(KeyedResponse(200, TRUE, DATA_INSERT_SUCCESSFUL), TRUE,
                  pool.name, create_pool_date_ranges(pool.date_ranges).rows,
                  [NotUpdated EXCEPT
                      !.logged = create_pool_date_ranges(pool.date_ranges).logged])}
    \* db_date_ranges is unbound at api.py:58: the pool row is committed,
    \* the handler ends in except Exception
    ELSE {Outcome(ExceptionResponse, TRUE, pool.name, rows, NotUpdated)}

\* api.py:75-133
edit_pool(exists, name, rows, booked, pool_update) ==
    IF ~schema_ok(pool_update.date_ranges)
    THEN {Outcome(ValidationError, exists, name, rows, NotUpdated)}
    ELSE IF /\ pool_update.date_ranges # << >>
            /\ partition_findings(pool_update.date_ranges) # NoFinding
    THEN {Outcome(partition_findings(pool_update.date_ranges), exists, name, rows,
                  NotUpdated)}
    \* update_pool returns None
    ELSE IF ~exists
    THEN {Outcome(KeyedResponse(404, FALSE, POOL_NOT_FOUND), exists, name, rows,
                  NotUpdated)}
    \* update_pool has committed; updated_date_range is unbound at api.py:108
    ELSE IF pool_update.date_ranges = << >>
    THEN {Outcome(ExceptionResponse, exists, update_pool(name, pool_update), rows,
                  NotUpdated)}
    ELSE {Outcome(CASE u.kind = "raised" -> ExceptionResponse
                    [] u.kind = "rejected" -> DictResponse(u.check_date_capacity.ret)
                    [] OTHER -> KeyedResponse(200, TRUE, DATA_UPDATE_SUCCESSFUL),
                  exists, update_pool(name, pool_update), u.rows, u) :
              u \in update_pool_date_ranges(rows, pool_update.date_ranges, booked,
                                            pool_update.check_date_ranges)}

\* ----------------------------------------------------------- the requests
\* the partitions of n ranges that tile the calendar from day s on without
\* overlap or gap, oldest range first; only the last range may be open-ended
RECURSIVE AscendingFrom(_, _)
AscendingFrom(s, n) ==
    IF n = 1
    THEN {<<PoolDateRange(s, e, c)>> :
              e \in (s .. MaxDate) \cup {None}, c \in Capacities}
    ELSE UNION {{<<PoolDateRange(s, e, c)>> \o rest :
                     c \in Capacities, rest \in AscendingFrom(e + 1, n - 1)} :
                   e \in s .. MaxDate - 1}

AscendingPartitions ==
    UNION {AscendingFrom(s, n) : s \in Dates, n \in 1 .. MaxLen}

\* well-formed partitions, listed oldest first or newest first
Partitions == AscendingPartitions \cup {Reverse(p) : p \in AscendingPartitions}

\* lists that differ from a partition in one end date: they overlap, leave a
\* gap, end before they start, or are partitions again
NearPartitions ==
    UNION {{[p EXCEPT ![k].end_date = e] : k \in 1 .. Len(p), e \in Dates} :
              p \in {q \in AscendingPartitions :
                        \A k \in 1 .. Len(q) : q[k].capacity = 1}}

\* the date_ranges a request can carry (an empty or missing list is << >>)
ProposedRanges == Partitions \cup NearPartitions \cup {<< >>}

\* the sets of booked days the booking service may hold
Bookings == {{}} \cup {{d} : d \in Dates}

\* ------------------------------------------------------------------ state
VARIABLES
    client,            \* what the client does next: "create", "update", "done"
    pool_exists,       \* the pool's row is in pools
    pool_name,         \* its name
    pool_date_ranges,  \* the pool's active rows of pool_date_ranges, in query order
    pool_date_range_history,  \* the pool's rows of pool_date_range_history, oldest first
    booked_days,       \* the days on which the booking service holds bookings
    request,           \* the request handled last
    response,          \* its response
    updated_date_range,   \* how update_pool_date_ranges ended for it
    existing_ranges,      \* the rows update_pool_date_ranges read for it
    check_date_capacity,  \* what validate_service_pool_changes returned for it
    trace,                \* the oracle calls and excluded sub-ranges of that run
    expanded,             \* the rule_data it handed to getUnAvailableDates, in order
    sessions,             \* the database sessions of the updates that run concurrently
    autoincrement         \* the id the table pool_date_ranges gave out last

vars == <<client, pool_exists, pool_name, pool_date_ranges,
          pool_date_range_history, booked_days, request,
          response, updated_date_range, existing_ranges, check_date_capacity,
          trace, expanded, sessions, autoincrement>>

NoRequest == [op |-> "none", name |-> NoName, date_ranges |-> << >>,
              check_date_ranges |-> FALSE]

Init ==
    /\ client = "create"
    /\ pool_exists = FALSE
    /\ pool_name = NoName
    /\ pool_date_ranges = << >>
    /\ pool_date_range_history = << >>
    /\ booked_days \in Bookings
    /\ request = NoRequest
    /\ response = [status |-> 0]
    /\ updated_date_range = "none"
    /\ existing_ranges = << >>
    /\ check_date_capacity = NotValidated
    /\ trace = NoTrace
    /\ expanded = << >>
    /\ sessions = << >>
    /\ autoincrement = 0

Handled(req, o, next) ==
    /\ client' = next
    /\ request' = req
    /\ response' = o.response
    /\ pool_exists' = o.pool_exists
    /\ pool_name' = o.pool_name
    /\ pool_date_ranges' = o.rows
    /\ pool_date_range_history' = pool_date_range_history \o o.logged
    /\ existing_ranges' = o.existing_ranges
    /\ updated_date_range' = o.updated_date_range
    /\ check_date_capacity' = o.check_date_capacity
    /\ trace' = o.trace
    /\ UNCHANGED <<booked_days, expanded, sessions, autoincrement>>

\* POST /create_pool
CreatePool ==
    /\ client = "create"
    /\ \E date_ranges \in ProposedRanges :
         LET pool == [op |-> "create", name |-> "pool", date_ranges |-> date_ranges,
                      check_date_ranges |-> FALSE]
         IN  \E o \in create_pool_with_dates(pool_exists, pool_name,
                                             pool_date_ranges, pool) :
                 Handled(pool, o, "update")

\* PUT /update_pool
EditPool ==
    /\ client = "update"
    /\ \E date_ranges \in ProposedRanges, check_date_ranges \in BOOLEAN,
          name \in {NoName, "renamed"} :
         LET pool_update == [op |-> "update", name |-> name,
                             date_ranges |-> date_ranges,
                             check_date_ranges |-> check_date_ranges]
         IN  \E o \in edit_pool(pool_exists, pool_name, pool_date_ranges,
                                booked_days, pool_update) :
                 Handled(pool_update, o, "done")

Next == CreatePool \/ EditPool

Spec == Init /\ [][Next]_vars

\* ------------------------------------------ updates that keep the name
\* PUT /update_pool with PoolUpdate.name = None: update_pool leaves the
\* pool's row as it is and the request only replaces the date ranges
UpdatePoolDateRanges ==
    /\ client = "update"
    /\ \E date_ranges \in ProposedRanges, check_date_ranges \in BOOLEAN :
         LET pool_update == [op |-> "update", name |-> NoName,
                             date_ranges |-> date_ranges,
                             check_date_ranges |-> check_date_ranges]
         IN  \E o \in edit_pool(pool_exists, pool_name, pool_date_ranges,
                                booked_days, pool_update) :
                 Handled(pool_update, o, "done")

ReconcileNext == CreatePool \/ UpdatePoolDateRanges

\* a pool is created and its date ranges are updated once
ReconcileSpec == Init /\ [][ReconcileNext]_vars

\* ------------------------------------- the partition checks on their own
\* lists of up to MaxRanges ranges that pass the schema, in any order
RangeLists ==
    LET Ranges == {PoolDateRange(st, e, 1) :
                      st \in Dates, e \in Dates \cup {None}}
        Valid == {r \in Ranges : check_end_date(r)}
    IN  UNION {[1 .. n -> Valid] : n \in 1 .. MaxRanges}

\* POST /create_pool with any list of ranges
CreateAnyPool ==
    /\ client = "create"
    /\ \E date_ranges \in RangeLists :
         LET pool == [op |-> "create", name |-> "pool", date_ranges |-> date_ranges,
                      check_date_ranges |-> FALSE]
         IN  \E o \in create_pool_with_dates(pool_exists, pool_name,
                                             pool_date_ranges, pool) :
                 Handled(pool, o, "done")

CheckerSpec == Init /\ [][CreateAnyPool]_vars

\* --------------------------------------- not-available rules (part_000)
\* a date as a caller passes it: a date object, a string in the form
\* YYYY-MM-DD, or a string strptime cannot parse
DateObject(d) == [type |-> "date", parses |-> TRUE, day |-> d]
DateString(d) == [type |-> "str", parses |-> TRUE, day |-> d]
BadString == [type |-> "str", parses |-> FALSE, day |-> None]

DateInputs ==
    {DateObject(d) : d \in Dates} \cup {DateString(d) : d \in Dates}
        \cup {BadString}

\* part_000:154-173: datetime.strptime(x, "%Y-%m-%d") raises ValueError
raises_ValueError(x) == x.type = "str" /\ ~x.parses

\* part_000:154-173: the date an input stands for after conversion
to_date(x) == x.day

\* variant: the rule bounds are compared as well
request_inverted_or_rule(rule_start_date, rule_end_date, request_start_date, request_end_date) ==
    \/ request_start_date > request_end_date
    \/ rule_start_date > rule_end_date

\* part_000:175
request_inverted(rule_start_date, rule_end_date, request_start_date, request_end_date) ==
    request_start_date > request_end_date

\* variant: the earlier of the two starts is taken
adjusted_start_date_min(request_start_date, rule_start_date) ==
    IF request_start_date <= rule_start_date THEN request_start_date
                                             ELSE rule_start_date

\* part_000:182  max(request_start_date, rule_start_date)
adjusted_start_date(request_start_date, rule_start_date) ==
    IF request_start_date >= rule_start_date THEN request_start_date
                                             ELSE rule_start_date

\* part_000:185  min(request_end_date, rule_end_date)
adjusted_end_date(request_end_date, rule_end_date) ==
    IF request_end_date <= rule_end_date THEN request_end_date
                                         ELSE rule_end_date

\* part_000:135-205.  The inputs are strings or date objects, as the
\* signature declares, so the comparisons do not raise.
adjust_dates(rule_start_date, rule_end_date, request_start_date, request_end_date) ==
    IF \/ raises_ValueError(rule_start_date) \/ raises_ValueError(rule_end_date)
       \/ raises_ValueError(request_start_date)
       \/ raises_ValueError(request_end_date)
    THEN [success |-> FALSE, api_error |-> "str(ve)",
          message |-> "INVALIDDATEFORMAT",
          translation_key |-> "INVALID_DATE_FORMAT"]
    ELSE IF request_inverted(to_date(rule_start_date), to_date(rule_end_date),
                             to_date(request_start_date),
                             to_date(request_end_date))
    THEN [success |-> FALSE, message |-> "STARTDATEGREATERTHANENDDATE",
          translation_key |-> "START_DATE_GREATER_THAN_END_DATE"]
    ELSE [success |-> TRUE,
          start_date |-> adjusted_start_date(to_date(request_start_date),
                                             to_date(rule_start_date)),
          end_date |-> adjusted_end_date(to_date(request_end_date),
                                         to_date(rule_end_date))]

\* Helper.error_response(response, key, message, status)
error_response(key, status) ==
    [success |-> FALSE, status |-> status, translation_key |-> key]

\* CalendarManagementComponent.getUnAvailableDates: the recurrence is not
\* modelled; the rule is taken to repeat daily, so that the dates returned
\* are the days of the window it is given
getUnAvailableDates(rule_data) ==
    {d \in Dates : rule_data.start_date.day <= d /\ d <= rule_data.end_date.day}

\* a candidate rule: its pricing_type is NOTAVAILABLE or something else
Rule(not_available, start_date, end_date) ==
    [not_available |-> not_available, start_date |-> start_date,
     end_date |-> end_date]

\* part_000:77-81
filtered_rules(rules) == SelectSeq(rules, LAMBDA item : item.not_available)

RECURSIVE expand_from(_, _, _, _, _, _)
RECURSIVE expand_from_skipping(_, _, _, _, _, _)
\* variant: a rule whose dates cannot be adjusted is skipped
expand_from_skipping(rules, start_date, end_date, k, unavailable_dates, calls) ==
    IF k > Len(rules)
    THEN [result |-> [status |-> 200, success |-> TRUE,
                      not_available_dates |-> unavailable_dates],
          calls |-> calls]
    ELSE LET adjust_rule_dates == adjust_dates(rules[k].start_date,
                                               rules[k].end_date,
                                               start_date, end_date)
             rule_data == [start_date |-> str(adjust_rule_dates.start_date),
                           end_date |-> str(adjust_rule_dates.end_date)]
         IN  IF adjust_rule_dates.success = FALSE
             THEN expand_from_skipping(rules, start_date, end_date, k + 1,
                                       unavailable_dates, calls)
             ELSE expand_from_skipping(
                      rules, start_date, end_date, k + 1,
                      unavailable_dates \cup getUnAvailableDates(rule_data),
                      Append(calls, rule_data))

\* part_000:83-110: the loop over the filtered rules, from the k-th on
expand_from(rules, start_date, end_date, k, unavailable_dates, calls) ==
    IF k > Len(rules)
    THEN [result |-> [status |-> 200, success |-> TRUE,
                      not_available_dates |-> unavailable_dates],
          calls |-> calls]
    ELSE LET adjust_rule_dates == adjust_dates(rules[k].start_date,
                                               rules[k].end_date,
                                               start_date, end_date)
             rule_data == [start_date |-> str(adjust_rule_dates.start_date),
                           end_date |-> str(adjust_rule_dates.end_date)]
         IN  IF adjust_rule_dates.success = FALSE
             THEN [result |-> [status |-> 400] @@ adjust_rule_dates,
                   calls |-> calls]
             ELSE expand_from(rules, start_date, end_date, k + 1,
                              unavailable_dates \cup getUnAvailableDates(rule_data),
                              Append(calls, rule_data))

\* part_000:20-131.  adjust_dates is a module-level function wrapped in
\* staticmethod and called by its name, which Python 3.10 and later allow.
\* upstream: how get_user_tag_ids and
\* get_user_service_rules ended ("raised", "errors": a dictionary with
\* errors was returned, "ok": user_service_rules holds the rules)
get_not_available_rule_dates(request_, upstream) ==
    IF upstream = "raised"
    THEN [result |-> error_response("INTERNAL_SERVER_ERROR", 500),
          calls |-> << >>]
    ELSE IF upstream = "errors"
    THEN [result |-> [status |-> 200, errors |-> TRUE], calls |-> << >>]
    ELSE IF filtered_rules(request_.rules) # << >>
    THEN expand_from(filtered_rules(request_.rules), request_.start_date,
                     request_.end_date, 1, {}, << >>)
    ELSE [result |-> error_response("NO_RULES_FOUND", 400), calls |-> << >>]

\* the dates of a request window or of a stored rule
WindowDates == {DateObject(d) : d \in Dates} \cup {BadString}

Rules ==
    {Rule(FALSE, DateObject(0), DateObject(0))}
        \cup {Rule(TRUE, st, e) : st \in WindowDates, e \in WindowDates}

RuleLists == UNION {[1 .. n -> Rules] : n \in 0 .. MaxRules}

ClipInit ==
    /\ client \in {"adjust_dates", "rules"}
    /\ pool_exists = FALSE
    /\ pool_name = NoName
    /\ pool_date_ranges = << >>
    /\ pool_date_range_history = << >>
    /\ booked_days = {}
    /\ request = NoRequest
    /\ response = [status |-> 0]
    /\ updated_date_range = "none"
    /\ existing_ranges = << >>
    /\ check_date_capacity = NotValidated
    /\ trace = NoTrace
    /\ expanded = << >>
    /\ sessions = << >>
    /\ autoincrement = 0

\* one call of adjust_dates
AdjustDates ==
    /\ client = "adjust_dates"
    /\ \E rule_start_date \in DateInputs, rule_end_date \in DateInputs,
          request_start_date \in DateInputs, request_end_date \in DateInputs :
         /\ request' = [op |-> "adjust_dates",
                        rule_start_date |-> rule_start_date,
                        rule_end_date |-> rule_end_date,
                        request_start_date |-> request_start_date,
                        request_end_date |-> request_end_date]
         /\ response' = adjust_dates(rule_start_date, rule_end_date,
                                     request_start_date, request_end_date)
    /\ client' = "done"
    /\ UNCHANGED <<pool_exists, pool_name, pool_date_ranges,
                   pool_date_range_history, booked_days, updated_date_range,
                   existing_ranges, check_date_capacity, trace, expanded,
                   sessions, autoincrement>>

\* one availability request
GetNotAvailableRuleDates ==
    /\ client = "rules"
    /\ \E start_date \in WindowDates, end_date \in WindowDates,
          rules \in RuleLists, upstream \in {"raised", "errors", "ok"} :
         LET request_ == [op |-> "rules", start_date |-> start_date,
                          end_date |-> end_date, rules |-> rules,
                          upstream |-> upstream]
             o == get_not_available_rule_dates(request_, upstream)
         IN  /\ request' = request_
             /\ response' = o.result
             /\ expanded' = o.calls
    /\ client' = "done"
    /\ UNCHANGED <<pool_exists, pool_name, pool_date_ranges,
                   pool_date_range_history, booked_days, updated_date_range,
                   existing_ranges, check_date_capacity, trace,
                   sessions, autoincrement>>

ClipNext == AdjustDates \/ GetNotAvailableRuleDates

ClipSpec == ClipInit /\ [][ClipNext]_vars

\* ------------------------------------------- two updates of the same pool
\* Two PUT /update_pool requests for the same pool are handled at the same
\* time, each in its own database session, and both carry the bypass flag,
\* so that update_pool_date_ranges goes from its read straight to its
\* writes.  Each step below is one statement of crud.py:140-207 that reads
\* or commits; the steps of the two sessions interleave freely.
Sessions == {1, 2}

\* a row of the table pool_date_ranges
Row(id, date_range) ==
    [id |-> id, start_date |-> date_range.start_date,
     end_date |-> date_range.end_date, capacity |-> date_range.capacity]

\* the ids of the rows of a list
Ids(rows) == {rows[k].id : k \in 1 .. Len(rows)}

\* crud.py:252-270 with pool_date_range_id
history_entry(pool_date_range_id, action_type, old_start_date, old_end_date, old_capacity) ==
    [pool_date_range_id |-> pool_date_range_id]
        @@ log_pool_date_range_history(action_type, old_start_date,
                                       old_end_date, old_capacity)

\* partitions from day 0 on with an open end, every range of capacity c
CompletePartitions(c) ==
    {p \in AscendingPartitions :
        /\ p[1].start_date = 0
        /\ p[Len(p)].end_date = None
        /\ \A k \in 1 .. Len(p) : p[k].capacity = c}

\* a session before its first statement
NewSession(date_ranges) ==
    [pc |-> "read", date_ranges |-> date_ranges, existing_ranges |-> << >>,
     k |-> 1, deleted |-> {}, id |-> 0]

\* the pool is stored with the partition S; the first request proposes P,
\* the second Q.  existing_ranges holds the rows stored before the two
\* updates began.
ConcurrentInit ==
    /\ client = "concurrent"
    /\ pool_exists = TRUE
    /\ pool_name = "pool"
    /\ \E S \in CompletePartitions(1) :
          LET rows == [k \in 1 .. Len(S) |-> Row(k, S[k])]
          IN  /\ pool_date_ranges = rows
              /\ existing_ranges = rows
              /\ pool_date_range_history =
                     [k \in 1 .. Len(S) |->
                         history_entry(k, "INSERT", None, None, None)]
              /\ autoincrement = Len(S)
    /\ booked_days = {}
    /\ request = NoRequest
    /\ response = [status |-> 0]
    /\ updated_date_range = "none"
    /\ check_date_capacity = NotValidated
    /\ trace = NoTrace
    /\ expanded = << >>
    /\ \E P \in CompletePartitions(1), Q \in CompletePartitions(2) :
          sessions = <<NewSession(P), NewSession(Q)>>

Untouched ==
    UNCHANGED <<client, pool_exists, pool_name, booked_days, request, response,
                updated_date_range, existing_ranges, check_date_capacity, trace,
                expanded>>

\* crud.py:143-147: the session reads the active rows that are committed
Read(s) ==
    /\ sessions[s].pc = "read"
    /\ sessions' = [sessions EXCEPT
                       ![s].existing_ranges = pool_date_ranges,
                       ![s].pc = IF pool_date_ranges = << >> THEN "delete"
                                                             ELSE "log_delete"]
    /\ UNCHANGED <<pool_date_ranges, pool_date_range_history, autoincrement>>
    /\ Untouched

\* crud.py:155-168: the DELETE entry of the k-th row read is added and
\* committed
LogDelete(s) ==
    /\ sessions[s].pc = "log_delete"
    /\ LET old_range == sessions[s].existing_ranges[sessions[s].k]
       IN  pool_date_range_history' =
               Append(pool_date_range_history,
                      history_entry(old_range.id, "DELETE", old_range.start_date,
                                    old_range.end_date, old_range.capacity))
    /\ sessions' = [sessions EXCEPT
                       ![s].k = IF @ = Len(sessions[s].existing_ranges)
                                THEN 1 ELSE @ + 1,
                       ![s].pc = IF sessions[s].k = Len(sessions[s].existing_ranges)
                                 THEN "delete" ELSE "log_delete"]
    /\ UNCHANGED <<pool_date_ranges, autoincrement>>
    /\ Untouched

\* crud.py:156: the commit of the entry before has expired old_range; when
\* the session expires its objects on commit (the default of a Session),
\* reading old_range.id loads the row again, and fails with
\* ObjectDeletedError when another session has deleted it.  The handler's
\* except Exception ends the request.
ObjectDeleted(s) ==
    /\ sessions[s].pc = "log_delete"
    /\ sessions[s].k > 1
    /\ sessions[s].existing_ranges[sessions[s].k].id \notin Ids(pool_date_ranges)
    /\ sessions' = [sessions EXCEPT ![s].pc = "failed"]
    /\ UNCHANGED <<pool_date_ranges, pool_date_range_history, autoincrement>>
    /\ Untouched

\* crud.py:171-175: DELETE of the pool's active rows.  The statement works
\* on the committed rows and waits for the rows another session has
\* deleted and not yet committed; its effect reaches the table with the
\* session's next commit.
Delete(s) ==
    /\ sessions[s].pc = "delete"
    /\ \A o \in Sessions \ {s} : sessions[o].deleted \cap Ids(pool_date_ranges) = {}
    /\ sessions' = [sessions EXCEPT ![s].deleted = Ids(pool_date_ranges),
                                    ![s].pc = "insert", ![s].k = 1]
    /\ UNCHANGED <<pool_date_ranges, pool_date_range_history, autoincrement>>
    /\ Untouched

\* crud.py:178-191: the k-th proposed range is added and committed, and
\* with it the DELETE that was pending
Insert(s) ==
    /\ sessions[s].pc = "insert"
    /\ LET new_date_range == Row(autoincrement + 1,
                                 sessions[s].date_ranges[sessions[s].k])
           Kept(row) == row.id \notin sessions[s].deleted
       IN  pool_date_ranges' =
               Append(SelectSeq(pool_date_ranges, Kept), new_date_range)
    /\ autoincrement' = autoincrement + 1
    /\ sessions' = [sessions EXCEPT ![s].deleted = {}, ![s].pc = "log_insert",
                                    ![s].id = autoincrement + 1]
    /\ UNCHANGED pool_date_range_history
    /\ Untouched

\* crud.py:193-204: the INSERT entry of the new row is added and committed
LogInsert(s) ==
    /\ sessions[s].pc = "log_insert"
    /\ pool_date_range_history' =
           Append(pool_date_range_history,
                  history_entry(sessions[s].id, "INSERT", None, None, None))
    /\ sessions' = [sessions EXCEPT
                       ![s].k = IF @ = Len(sessions[s].date_ranges) THEN @ ELSE @ + 1,
                       ![s].pc = IF sessions[s].k = Len(sessions[s].date_ranges)
                                 THEN "commit" ELSE "insert"]
    /\ UNCHANGED <<pool_date_ranges, autoincrement>>
    /\ Untouched

\* crud.py:206-207: the last commit, and the return
Commit(s) ==
    /\ sessions[s].pc = "commit"
    /\ sessions' = [sessions EXCEPT ![s].pc = "done"]
    /\ UNCHANGED <<pool_date_ranges, pool_date_range_history, autoincrement>>
    /\ Untouched

ConcurrentNext ==
    \E s \in Sessions :
        \/ Read(s)
        \/ LogDelete(s)
        \/ ObjectDeleted(s)
        \/ Delete(s)
        \/ Insert(s)
        \/ LogInsert(s)
        \/ Commit(s)

ConcurrentSpec == ConcurrentInit /\ [][ConcurrentNext]_vars

\* ======================================================= checked properties
\* the reconciliation run by the last request
Proposed == request.date_ranges
Paired == 1 .. Min(Len(existing_ranges), Len(Proposed))
Calls == trace.calls
Reconciled == check_date_capacity.state # "none"
Decided == check_date_capacity.state = "returned"
Decision == check_date_capacity.ret

IsHardReject(d) == d.success = FALSE /\ d.dialogue = FALSE
IsSoftReject(d) == d.success = FALSE /\ d.dialogue = TRUE

\* day d lies in one of the ranges
Covers(ranges, d) ==
    \E k \in 1 .. Len(ranges) :
        /\ ranges[k].start_date <= d
        /\ (ranges[k].end_date = None \/ d <= ranges[k].end_date)

SameDates(k) ==
    /\ Proposed[k].start_date = existing_ranges[k].start_date
    /\ Proposed[k].end_date = existing_ranges[k].end_date

Unreduced(k) == Proposed[k].capacity >= existing_ranges[k].capacity

PastEndPaired == \E k \in Paired : end_in_past(Proposed[k])
InvertedPaired == \E k \in Paired : start_after_end(Proposed[k])

\* ---- C1
\* C1 (as claimed): an update without the bypass flag that removes coverage
\* of a day of the existing partition on which bookings exist is not
\* accepted and leaves the stored ranges as they were.
C1_BookedCoverageKept ==
    ( /\ updated_date_range # "none"
      /\ ~request.check_date_ranges
      /\ \E d \in booked_days :
             Covers(existing_ranges, d) /\ ~Covers(Proposed, d) )
    => /\ updated_date_range # "written"
       /\ pool_date_ranges = existing_ranges
       /\ (Decided => Decision.success = FALSE)

\* ---- C2
UnchangedOrIncreased ==
    Reconciled /\ \A k \in Paired : SameDates(k) /\ Unreduced(k)

\* C2 (as claimed): when every paired position keeps its dates and does not
\* lower its capacity, the reconciliation returns Accept and calls the
\* oracle zero times.
C2_UnchangedAlwaysAccepted ==
    UnchangedOrIncreased => (Decided /\ Decision = Accept /\ Calls = << >>)

\* C2 (amended): when every paired position keeps its dates and does not
\* lower its capacity, the reconciliation calls the oracle zero times and
\* returns Accept, unless a paired proposed range has a bounded end before
\* today: then it returns the hard rejection PAST_DATE_ERROR.
C2_UnchangedAcceptedUnlessPast ==
    UnchangedOrIncreased =>
        /\ Calls = << >>
        /\ Decided
        /\ Decision = IF PastEndPaired THEN HardReject(PAST_DATE_ERROR) ELSE Accept

C2_Witness ==
    /\ UnchangedOrIncreased
    /\ Cardinality(Paired) >= 2
    /\ \E k \in Paired : Proposed[k].capacity > existing_ranges[k].capacity
    /\ \E k \in Paired : Proposed[k].capacity = existing_ranges[k].capacity
    /\ Decision = Accept

\* ---- C3
\* position k keeps or shrinks its range: the start is not earlier, the end
\* is not later
KeptOrShrunk(k) ==
    /\ Proposed[k].start_date >= existing_ranges[k].start_date
    /\ \/ Proposed[k].end_date = existing_ranges[k].end_date
       \/ /\ Proposed[k].end_date # None
          /\ \/ existing_ranges[k].end_date = None
             \/ Proposed[k].end_date < existing_ranges[k].end_date

\* a reconciliation of date-range shrinks alone
DateShrink ==
    /\ Decided
    /\ \A k \in Paired : KeptOrShrunk(k) /\ Unreduced(k)
    /\ \E k \in Paired : ~SameDates(k)

\* the booking service holds bookings in some excluded sub-range of the call
BookingsInExcluded ==
    \E k \in Paired :
        LET excluded == excluded_date_ranges(existing_ranges[k], Proposed[k])
        IN  \E j \in 1 .. Len(excluded) :
                BookingsIn(booked_days, excluded[j][1], excluded[j][2])

ShrinkDecision ==
    Decision = IF BookingsInExcluded THEN SoftReject(REDUCE_DATE_MESSAGE)
                                     ELSE Accept

C4_BypassSkipsReconciliation ==
    (updated_date_range # "none" /\ request.check_date_ranges) =>
        /\ check_date_capacity = NotValidated
        /\ trace = NoTrace
        /\ updated_date_range = "written"
        /\ pool_date_ranges = Proposed
        /\ response.success = TRUE

C4_Witness ==
    /\ updated_date_range = "written" /\ request.check_date_ranges
    /\ PastEndPaired
    /\ Len(Proposed) < Len(existing_ranges)
    /\ \E d \in booked_days : Covers(existing_ranges, d) /\ ~Covers(Proposed, d)
    /\ pool_date_ranges = Proposed

\* ---- C5
\* C5 (as claimed): when the reconciliation returns a hard rejection, it has
\* made no oracle call.
C5_HardRejectBeforeAnyCall ==
    (Decided /\ IsHardReject(Decision)) => Calls = << >>

\* ---- C6
\* C6 (as claimed): a paired proposed range with a bounded end before today
\* makes the reconciliation return PAST_DATE_ERROR, and one that starts
\* after its end a hard rejection, whatever the oracle answers.
C6_PastEndAlwaysHardReject ==
    Decided =>
        /\ PastEndPaired => Decision = HardReject(PAST_DATE_ERROR)
        /\ InvertedPaired => IsHardReject(Decision)

\* ---- C7
\* C7 (as claimed): a reconciliation makes at most one oracle call per
\* excluded sub-range it computed, plus one.
C7_CallsAtMostExcludedPlusOne ==
    Reconciled => Len(Calls) <= trace.excluded + 1

CallsAt(i) == {k \in 1 .. Len(Calls) : Calls[k].pos = i}

\* C7 (amended): a reconciliation makes at most one plain call per excluded
\* sub-range it computed and at most one capacity_check call per position it
\* examined.
C7_CallsAtMostExcludedPlusPositions ==
    Reconciled =>
        /\ Len(Calls) <= trace.excluded + trace.positions
        /\ Cardinality({k \in 1 .. Len(Calls) : ~Calls[k].data.capacity_check})
               <= trace.excluded
        /\ \A i \in 1 .. trace.positions :
               Cardinality({k \in CallsAt(i) : Calls[k].data.capacity_check}) <= 1
        /\ \A k \in 1 .. Len(Calls) : Calls[k].pos \in 1 .. trace.positions

C7_Witness ==
    /\ Decided /\ Decision = Accept
    /\ trace.positions >= 2
    /\ Len(Calls) = trace.excluded + trace.positions
    /\ trace.excluded >= 2

\* ---- C8
\* the dates and capacities of the position call k belongs to
OldOf(k) == existing_ranges[Calls[k].pos]
NewOf(k) == Proposed[Calls[k].pos]

\* call k is a plain query of an excluded sub-range that reported bookings
ExcludedWithBookings(k) ==
    /\ Calls[k].site = "excluded"
    /\ ~Calls[k].raised
    /\ Calls[k].result.is_booking_exists

\* call k + 1 repeats the sub-range of call k at the new capacity with
\* capacity_check set
RequeriedAfter(k) ==
    /\ Len(Calls) = k + 1
    /\ Calls[k + 1].site = "requery"
    /\ Calls[k + 1].pos = Calls[k].pos
    /\ Calls[k + 1].data = [Calls[k].data EXCEPT !.capacity = NewOf(k).capacity,
                                                 !.capacity_check = TRUE]

\* C8: when the old-capacity query of an excluded sub-range reports
\* bookings, then with the capacity reduced the same sub-range is queried
\* again at the new capacity with capacity_check set, and the decision is
\* SoftReject with REDUCED_DATE_CAPACITY_MESSAGE if that answer has
\* is_capacity_check and with REDUCE_DATE_MESSAGE if it has not; with the
\* capacity not reduced the decision is SoftReject with REDUCE_DATE_MESSAGE
\* and no further call is made.  A re-query is made only after a plain
\* query that reported bookings at a position whose capacity is reduced.
C8_BookingsInExcludedDecision ==
    \A k \in 1 .. Len(Calls) :
        /\ ExcludedWithBookings(k) =>
              IF OldOf(k).capacity > NewOf(k).capacity
              THEN /\ RequeriedAfter(k)
                   /\ Decided = ~Calls[k + 1].raised
                   /\ Decided =>
                         Decision = SoftReject(
                             IF Calls[k + 1].result.is_capacity_check
                             THEN REDUCED_DATE_CAPACITY_MESSAGE
                             ELSE REDUCE_DATE_MESSAGE)
              ELSE /\ Len(Calls) = k
                   /\ Decided
                   /\ Decision = SoftReject(REDUCE_DATE_MESSAGE)
        /\ Calls[k].site = "requery" =>
              /\ k > 1
              /\ ExcludedWithBookings(k - 1)
              /\ Calls[k - 1].pos = Calls[k].pos
              /\ OldOf(k).capacity > NewOf(k).capacity

C8_Witness ==
    /\ Decided
    /\ Decision = SoftReject(REDUCED_DATE_CAPACITY_MESSAGE)
    /\ Len(Calls) >= 3
    /\ Calls[Len(Calls)].site = "requery"
    /\ ~Calls[Len(Calls)].result.is_booking_exists

\* ---- C9
\* position i passed the date checks and every query of its excluded
\* sub-ranges came back without bookings, and its capacity is lowered
ReachedCapacityStep(i) ==
    /\ i \in 1 .. trace.positions
    /\ existing_ranges[i].capacity > Proposed[i].capacity
    /\ ~end_in_past(Proposed[i]) /\ ~start_after_end(Proposed[i])
    /\ LET plain == {k \in CallsAt(i) : ~Calls[k].data.capacity_check}
       IN  /\ Cardinality(plain) =
                  Len(excluded_date_ranges(existing_ranges[i], Proposed[i]))
           /\ \A k \in plain : ~Calls[k].raised /\ ~Calls[k].result.is_booking_exists

\* the payload of a query over the whole old range at the new capacity
WholeRangeQuery(i) ==
    [start_date |-> str(existing_ranges[i].start_date),
     end_date |-> str(existing_ranges[i].end_date),
     capacity |-> Proposed[i].capacity,
     capacity_check |-> TRUE]

\* the answer reports that existing bookings exceed the reduced capacity
ReportsConflict(result) == result.is_booking_exists /\ result.is_capacity_check

\* C9: at a position with lowered capacity where no date-range conflict
\* caused a rejection, exactly one capacity_check query is made, over the
\* whole old range at the new capacity; if its answer reports bookings that
\* exceed the capacity the decision is SoftReject with
\* REDUCE_CAPACITY_MESSSAGE, otherwise the reconciliation goes on to the
\* next position (and accepts after the last one).
C9_CapacityOnlyCheck ==
    Reconciled =>
        \A i \in 1 .. trace.positions :
            ReachedCapacityStep(i) =>
                LET asked == {k \in CallsAt(i) : Calls[k].data.capacity_check}
                IN  /\ Cardinality(asked) = 1
                    /\ \A k \in asked :
                          /\ Calls[k].data = WholeRangeQuery(i)
                          /\ Calls[k].raised => (~Decided /\ k = Len(Calls))
                          /\ (~Calls[k].raised /\ ReportsConflict(Calls[k].result)) =>
                                /\ Decided
                                /\ Decision = SoftReject(REDUCE_CAPACITY_MESSSAGE)
                                /\ k = Len(Calls)
                          /\ (~Calls[k].raised /\ ~ReportsConflict(Calls[k].result)) =>
                                IF i = Cardinality(Paired)
                                THEN Decided /\ Decision = Accept /\ k = Len(Calls)
                                ELSE trace.positions > i

C9_Witness ==
    /\ Decided
    /\ Decision = SoftReject(REDUCE_CAPACITY_MESSSAGE)
    /\ ReachedCapacityStep(1) /\ ReachedCapacityStep(2)
    /\ Calls[Len(Calls)].pos = 2
    /\ \E k \in CallsAt(1) : Calls[k].result.is_capacity_check
    /\ existing_ranges[2].end_date = None

\* ---- C10
\* C10 (as claimed): every response with success = false carries a message
\* and a translation_key.
C10_FailuresCarryTranslationKey ==
    ("success" \in DOMAIN response /\ response.success = FALSE) =>
        /\ "message" \in DOMAIN response
        /\ "translation_key" \in DOMAIN response

\* ---- C11
ReduceMessages ==
    {REDUCE_DATE_MESSAGE, REDUCE_CAPACITY_MESSSAGE, REDUCED_DATE_CAPACITY_MESSAGE}

\* C11: in every result of the reconciliation, dialogue is true exactly for
\* the rejections (success = false) that carry one of the three REDUCE_*
\* messages, and false exactly for Accept and for the hard rejections
\* PAST_DATE_ERROR and DATE_VALIDATION; no result is both successful and
\* awaiting confirmation.
C11_DialogueSeparatesOutcomes ==
    Decided =>
        /\ Decision.dialogue \in BOOLEAN
        /\ Decision.dialogue = TRUE <=>
              /\ Decision.success = FALSE
              /\ "message" \in DOMAIN Decision
              /\ Decision.message \in ReduceMessages
        /\ Decision.dialogue = FALSE <=>
              \/ Decision = Accept
              \/ Decision = HardReject(PAST_DATE_ERROR)
              \/ Decision = HardReject(DATE_VALIDATION)
        /\ ~(Decision.success = TRUE /\ Decision.dialogue = TRUE)

C11_Witness ==
    /\ Decided
    /\ Decision.dialogue = TRUE
    /\ Decision.message = REDUCE_DATE_MESSAGE
    /\ Len(Calls) = 2
    /\ Calls[2].site = "requery"

\* ---- C12
\* C12: when an oracle call fails during a reconciliation, it is the last
\* call made (no retry, no further call), no decision is returned, the
\* request is answered with a failure, and the stored date ranges stay as
\* they were read.
C12_OracleFailureFailsUpdate ==
    \A k \in 1 .. Len(Calls) :
        Calls[k].raised =>
            /\ k = Len(Calls)
            /\ ~Decided
            /\ updated_date_range = "raised"
            /\ response.success = FALSE
            /\ pool_date_ranges = existing_ranges

C12_Witness ==
    /\ Len(Calls) >= 2
    /\ Calls[Len(Calls)].raised
    /\ Calls[Len(Calls)].pos = 2
    /\ request.date_ranges # existing_ranges
    /\ response.success = FALSE
    /\ pool_date_ranges = existing_ranges

\* ---- C13
\* the history as the creation of the rows that were read left it
HistoryAsRead == log_inserted(existing_ranges)

\* C13: when the reconciliation returns a decision that is not Accept,
\* update_pool_date_ranges returns that decision, the stored ranges are the
\* ones it read, and the history holds no entry beyond those written when
\* these ranges were created: no DELETE and no further INSERT entry.
C13_RejectionWritesNothing ==
    (Decided /\ Decision.success = FALSE) =>
        /\ updated_date_range = "rejected"
        /\ response = DictResponse(Decision)
        /\ pool_date_ranges = existing_ranges
        /\ pool_date_range_history = HistoryAsRead

C13_Witness ==
    /\ Decided /\ IsSoftReject(Decision)
    /\ Len(existing_ranges) = 2
    /\ Len(Proposed) = 1
    /\ pool_date_ranges = existing_ranges
    /\ Len(pool_date_range_history) = 2

\* ---- C14
\* the request handled last ran the overlap check
PartitionChecked == request.op # "none" /\ request.date_ranges # << >>

ReportsOverlap ==
    /\ response.status = 400
    /\ "translation_key" \in DOMAIN response
    /\ response.translation_key = "POOL_DATES_OVERLAPS"

\* day d lies in range r; an open-ended range has no last day
InRange(r, d) == r.start_date <= d /\ (r.end_date = None \/ d <= r.end_date)

\* the end of r with an open end read as the far-future sentinel
EndOrSentinel(r) == IF r.end_date = None THEN FarFuture ELSE r.end_date

\* the pairs of positions a < b whose ranges satisfy
\* start_A <= end_B and start_B <= end_A
OverlappingPairs ==
    {p \in (1 .. Len(Proposed)) \X (1 .. Len(Proposed)) :
        /\ p[1] < p[2]
        /\ Proposed[p[1]].start_date <= EndOrSentinel(Proposed[p[2]])
        /\ Proposed[p[2]].start_date <= EndOrSentinel(Proposed[p[1]])}

\* C14: the request is answered with an overlap finding if and only if
\* some pair of its ranges, at any two positions of the list, satisfies
\* start_A <= end_B and start_B <= end_A with an open end read as the
\* far-future sentinel, which is the case exactly when the two ranges share
\* a day; the finding names such a pair.
C14_OverlapIffPairCondition ==
    PartitionChecked =>
        /\ ReportsOverlap <=> OverlappingPairs # {}
        /\ ReportsOverlap =>
              <<response.message.a, response.message.b>> \in OverlappingPairs
        /\ \A a \in 1 .. Len(Proposed), b \in 1 .. Len(Proposed) :
              a < b =>
                  (<<a, b>> \in OverlappingPairs <=>
                      \E d \in 0 .. FarFuture :
                          InRange(Proposed[a], d) /\ InRange(Proposed[b], d))

C14_Witness ==
    /\ PartitionChecked /\ ReportsOverlap
    /\ OverlappingPairs = {<<1, 3>>}
    /\ response.message = OverlapFinding(<<1, 3>>)
    /\ Proposed[1].end_date = None
    /\ Proposed[3].start_date > Proposed[1].start_date

\* ---- C15
ReportsGap ==
    /\ response.status = 400
    /\ "translation_key" \in DOMAIN response
    /\ response.translation_key = "POOL_DATE_GAPS"

\* the range at position b follows the one at position a in start order
NextByStart(a, b) ==
    /\ Proposed[a].start_date < Proposed[b].start_date
    /\ ~\E c \in 1 .. Len(Proposed) :
          /\ Proposed[a].start_date < Proposed[c].start_date
          /\ Proposed[c].start_date < Proposed[b].start_date

\* the pairs that follow each other in start order with more than one day
\* between the end of the first and the start of the second
GapPairs ==
    {p \in (1 .. Len(Proposed)) \X (1 .. Len(Proposed)) :
        /\ NextByStart(p[1], p[2])
        /\ Proposed[p[2]].start_date > EndOrSentinel(Proposed[p[1]]) + 1}

\* the days the ranges cover form one span without a hole
Contiguous ==
    \A d1 \in 0 .. FarFuture, d2 \in 0 .. FarFuture, d3 \in 0 .. FarFuture :
        (d1 < d2 /\ d2 < d3 /\ Covers(Proposed, d1) /\ Covers(Proposed, d3))
            => Covers(Proposed, d2)

\* the number of ranges that start before the one at position a
StartsBefore(a) ==
    Cardinality({c \in 1 .. Len(Proposed) :
                    Proposed[c].start_date < Proposed[a].start_date})

\* C15: a request whose ranges do not overlap is answered with a gap
\* finding if and only if two ranges that follow each other in start order
\* have the second start more than one day after the first end (a start on
\* the day after the end is no gap), that is, if and only if the covered
\* days do not form one contiguous span; the finding names such a pair by
\* its place in start order.
C15_GapIffMoreThanOneDay ==
    (PartitionChecked /\ OverlappingPairs = {}) =>
        /\ ReportsGap <=> GapPairs # {}
        /\ ReportsGap <=> ~Contiguous
        /\ ReportsGap =>
              \E p \in GapPairs : StartsBefore(p[1]) + 1 = response.message.a

C15_Witness ==
    /\ PartitionChecked /\ ReportsGap
    /\ Len(Proposed) = 2
    /\ Proposed[1].start_date > Proposed[2].start_date
    /\ Proposed[1].start_date = Proposed[2].end_date + 2
    /\ response.message = GapFinding(1)

\* ---- C16
\* every overlap and every gap of the proposed ranges, as a finding
Findings ==
    {OverlapFinding(p) : p \in OverlappingPairs}
        \cup {GapFinding(StartsBefore(p[1]) + 1) : p \in GapPairs}

\* C16 (as claimed): every overlap and every gap of the proposed ranges is
\* reported in the answer to the request.
C16_EveryFindingReported ==
    PartitionChecked =>
        \A f \in Findings :
            /\ ReportsOverlap \/ ReportsGap
            /\ response.message = f

\* ---- C17
\* the last step was a call of adjust_dates
Adjusted == request.op = "adjust_dates"

AllParse ==
    /\ ~raises_ValueError(request.rule_start_date)
    /\ ~raises_ValueError(request.rule_end_date)
    /\ ~raises_ValueError(request.request_start_date)
    /\ ~raises_ValueError(request.request_end_date)

FailsWith(key) ==
    /\ response.success = FALSE
    /\ response.translation_key = key

\* C17: adjust_dates fails with START_DATE_GREATER_THAN_END_DATE if and
\* only if all four dates parse and the request start is after the request
\* end, whatever the order of the rule bounds; when a date string does not
\* parse it fails with INVALID_DATE_FORMAT, also for inverted request
\* bounds.
C17_InvertedRequestOnly ==
    Adjusted =>
        /\ FailsWith("START_DATE_GREATER_THAN_END_DATE") <=>
              /\ AllParse
              /\ request.request_start_date.day > request.request_end_date.day
        /\ ~AllParse => FailsWith("INVALID_DATE_FORMAT")

C17_Witness ==
    /\ Adjusted
    /\ response.success = TRUE
    /\ request.rule_start_date.type = "str"
    /\ request.request_end_date.type = "date"
    /\ request.rule_start_date.day > request.rule_end_date.day
    /\ request.request_start_date.day < request.request_end_date.day

\* ---- C18
\* the days from a to b
Days(a, b) == {d \in Dates : a <= d /\ d <= b}

\* C18: with four valid dates and the request start not after the request
\* end, adjust_dates succeeds with the later of the two starts and the
\* earlier of the two ends; the start is not before the request start, the
\* end not after the request end, the days from start to end are exactly
\* the days that lie in both intervals, and when there is no such day the
\* call still succeeds, with start after end.
C18_ClipIsIntersection ==
    ( /\ Adjusted /\ AllParse
      /\ request.request_start_date.day <= request.request_end_date.day ) =>
        LET ruleStart == request.rule_start_date.day
            ruleEnd == request.rule_end_date.day
            requestStart == request.request_start_date.day
            requestEnd == request.request_end_date.day
            both == Days(ruleStart, ruleEnd) \cap Days(requestStart, requestEnd)
        IN  /\ response.success = TRUE
            /\ response.start_date \in {ruleStart, requestStart}
            /\ response.start_date >= ruleStart
            /\ response.start_date >= requestStart
            /\ response.end_date \in {ruleEnd, requestEnd}
            /\ response.end_date <= ruleEnd
            /\ response.end_date <= requestEnd
            /\ Days(response.start_date, response.end_date) = both
            /\ both = {} <=> response.start_date > response.end_date

C18_Witness ==
    /\ Adjusted /\ AllParse
    /\ response.success = TRUE
    /\ response.start_date > response.end_date
    /\ request.rule_start_date.day <= request.rule_end_date.day
    /\ request.request_start_date.day <= request.request_end_date.day

\* ---- C19
\* the last step was an availability request
RulesRequested == request.op = "rules"

\* its window has two valid dates, the start after the end
InvertedWindow ==
    /\ RulesRequested
    /\ ~raises_ValueError(request.start_date)
    /\ ~raises_ValueError(request.end_date)
    /\ request.start_date.day > request.end_date.day

\* the candidate rules whose pricing_type is NOTAVAILABLE
NotAvailableRules == SelectSeq(request.rules, LAMBDA r : r.not_available)

NoDatesReturned ==
    /\ "not_available_dates" \notin DOMAIN response
    /\ "success" \in DOMAIN response => response.success = FALSE

\* C19 (as claimed): an availability request with an inverted window fails
\* with START_DATE_GREATER_THAN_END_DATE whatever the candidate rules are,
\* returns no dates and never calls the expander.
C19_InvertedWindowAlwaysInvalidRange ==
    (InvertedWindow /\ request.upstream = "ok") =>
        /\ FailsWith("START_DATE_GREATER_THAN_END_DATE")
        /\ NoDatesReturned
        /\ expanded = << >>

\* C19 (amended): an availability request with an inverted window returns
\* no dates and never calls the expander; when the rules were fetched, it
\* fails with NO_RULES_FOUND if none of them is a not-available rule, and
\* otherwise is aborted at the first not-available rule, with
\* START_DATE_GREATER_THAN_END_DATE if the dates of that rule parse and
\* with INVALID_DATE_FORMAT if they do not.
C19_InvertedWindowNeverExpands ==
    InvertedWindow =>
        /\ NoDatesReturned
        /\ expanded = << >>
        /\ request.upstream = "ok" =>
              IF NotAvailableRules = << >>
              THEN FailsWith("NO_RULES_FOUND")
              ELSE IF \/ raises_ValueError(NotAvailableRules[1].start_date)
                      \/ raises_ValueError(NotAvailableRules[1].end_date)
              THEN FailsWith("INVALID_DATE_FORMAT") /\ response.status = 400
              ELSE /\ FailsWith("START_DATE_GREATER_THAN_END_DATE")
                   /\ response.status = 400

C19_Witness ==
    /\ InvertedWindow /\ request.upstream = "ok"
    /\ Len(request.rules) = 2
    /\ ~request.rules[1].not_available
    /\ request.rules[2].not_available
    /\ FailsWith("START_DATE_GREATER_THAN_END_DATE")
    /\ expanded = << >>

\* ---- C20
\* C20 (as claimed): every oracle call of a reconciliation carries its
\* start_date and its end_date as dates in the form YYYY-MM-DD.
C20_PayloadDatesAreIso ==
    \A k \in 1 .. Len(Calls) :
        Calls[k].data.start_date.iso /\ Calls[k].data.end_date.iso

\* ---- C21
\* the dates and the capacities of the old and the new range at position i
PairDates(i) ==
    {existing_ranges[i].start_date, existing_ranges[i].end_date,
     Proposed[i].start_date, Proposed[i].end_date}
PairCapacities(i) == {existing_ranges[i].capacity, Proposed[i].capacity}

\* the position the reconciliation examined last
LastPosition == trace.positions

\* the pair at position i is sent on to the next position when no oracle
\* call is made for it, or when its last call was answered without
\* bookings and without a capacity conflict
PairPassed(i) ==
    /\ ~end_in_past(Proposed[i]) /\ ~start_after_end(Proposed[i])
    /\ \A k \in CallsAt(i) : ~Calls[k].raised /\ Calls[k].site # "requery"

\* C21: the reconciliation pairs the old and the new ranges by position and
\* goes through the pairs in increasing position.  Every oracle call
\* belongs to a position both lists have and carries dates and a capacity
\* of the pair at that position, and the positions of the calls never
\* decrease.  It accepts only after it has passed every pair; a rejection
\* or a failure is decided at a paired position, after every pair before
\* it has passed: a hard rejection by the proposed range of that pair, a
\* soft rejection or a failure by the last oracle call, made for that pair.
\* Ranges beyond the shorter list are never examined.
C21_PairedByPosition ==
    Reconciled =>
        /\ \A k \in 1 .. Len(Calls) :
              /\ Calls[k].pos \in Paired
              /\ Calls[k].data.start_date.day \in PairDates(Calls[k].pos)
              /\ Calls[k].data.end_date.day \in PairDates(Calls[k].pos)
              /\ Calls[k].data.capacity \in PairCapacities(Calls[k].pos)
              /\ \A l \in 1 .. k : Calls[l].pos <= Calls[k].pos
        /\ LastPosition \in Paired \cup {0}
        /\ \A i \in 1 .. LastPosition - 1 : PairPassed(i)
        /\ (Decided /\ Decision = Accept) =>
              /\ LastPosition = Cardinality(Paired)
              /\ \A i \in Paired : PairPassed(i)
        /\ (Decided /\ IsHardReject(Decision)) =>
              /\ LastPosition \in Paired
              /\ \/ end_in_past(Proposed[LastPosition])
                 \/ start_after_end(Proposed[LastPosition])
        /\ (~Decided \/ IsSoftReject(Decision)) =>
              /\ Calls # << >>
              /\ Calls[Len(Calls)].pos = LastPosition
              /\ ~Decided <=> Calls[Len(Calls)].raised

C21_Witness ==
    /\ Decided /\ Decision = Accept
    /\ Len(Proposed) < Len(existing_ranges)
    /\ Calls # << >>
    /\ \E d \in booked_days :
          /\ InRange(existing_ranges[Len(existing_ranges)], d)
          /\ ~Covers(Proposed, d)

\* ---- C22
\* no two ranges of the list share a day: of two ranges, one ends before
\* the other starts
NoOverlap(ranges) ==
    \A a \in 1 .. Len(ranges) :
        \A b \in a + 1 .. Len(ranges) :
            \/ (ranges[a].end_date # None /\ ranges[a].end_date < ranges[b].start_date)
            \/ (ranges[b].end_date # None /\ ranges[b].end_date < ranges[a].start_date)

\* no hole between consecutive ranges: a range that ends before another
\* one starts is followed by a range that starts on the day after its end
NoGap(ranges) ==
    \A a \in 1 .. Len(ranges) :
        (/\ ranges[a].end_date # None
         /\ \E b \in 1 .. Len(ranges) : ranges[b].start_date > ranges[a].end_date)
            => \E b \in 1 .. Len(ranges) :
                   ranges[b].start_date = ranges[a].end_date + 1

ValidPartition(ranges) == NoOverlap(ranges) /\ NoGap(ranges)

\* the handler received a request whose ranges overlap or leave a gap
InvalidPartitionRequested ==
    /\ request.op # "none"
    /\ schema_ok(Proposed)
    /\ ~ValidPartition(Proposed)

\* C22: after every request of a sequence of create and update requests,
\* with or without the bypass flag, the stored active ranges of the pool
\* form a valid partition (no two ranges share a day, no hole between
\* consecutive ranges); a request whose ranges overlap or leave a gap is
\* answered with status 400 and writes nothing: no pool row, no range and
\* no history entry.
C22_StoredPartitionValid ==
    /\ ValidPartition(pool_date_ranges)
    /\ InvalidPartitionRequested =>
          /\ response.status = 400 /\ response.success = FALSE
          /\ updated_date_range = "none"
          /\ pool_date_range_history = log_inserted(pool_date_ranges)
          /\ pool_name = IF pool_exists THEN "pool" ELSE NoName
          /\ request.op = "create" => ~pool_exists /\ pool_date_ranges = << >>

C22_Witness ==
    /\ updated_date_range = "written" /\ request.check_date_ranges
    /\ Len(pool_date_ranges) = 2 /\ Len(existing_ranges) = 1
    /\ pool_date_ranges[1].start_date > pool_date_ranges[2].start_date
    /\ pool_date_ranges[1].end_date = None
    /\ ValidPartition(pool_date_ranges)
    /\ \E d \in 0 .. MaxDate : Covers(existing_ranges, d) /\ ~Covers(pool_date_ranges, d)

\* ---- C23
Earlier(a, b) == IF a <= b THEN a ELSE b
Later(a, b) == IF a <= b THEN b ELSE a

\* the sub-ranges the claim names for position i: the start side when the
\* starts differ, then the end side when both ends are bounded and differ
StartSide(i) ==
    IF Proposed[i].start_date # existing_ranges[i].start_date
    THEN << <<Earlier(existing_ranges[i].start_date, Proposed[i].start_date),
              Later(existing_ranges[i].start_date, Proposed[i].start_date)>> >>
    ELSE << >>
EndSide(i) ==
    IF /\ existing_ranges[i].end_date # None
       /\ Proposed[i].end_date # None
       /\ Proposed[i].end_date # existing_ranges[i].end_date
    THEN << <<Earlier(existing_ranges[i].end_date, Proposed[i].end_date),
              Later(existing_ranges[i].end_date, Proposed[i].end_date)>> >>
    ELSE << >>
ExcludedSubRanges(i) == StartSide(i) \o EndSide(i)

\* the plain queries sent for position i, in the order they were sent
ExcludedQueriesAt(i) ==
    LET AtSite(c) == c.pos = i /\ c.site = "excluded"
    IN  SelectSeq(Calls, AtSite)

\* the reconciliation went through position i without stopping there
PassedPosition(i) ==
    \/ i < trace.positions
    \/ i = trace.positions /\ Decided /\ Decision = Accept

\* C23: the excluded sub-ranges of a paired position are the start side
\* (the earlier and the later of the old and the new start) when the starts
\* differ, followed by the end side (the earlier and the later of the old
\* and the new end) when both ends are bounded and differ: the plain
\* queries of the position ask for these sub-ranges in this order, each
\* with its start strictly before its end, at most two of them, all of
\* them when the position is passed, and a requery repeats the dates of the
\* query before it; an open old or new end yields no end-side sub-range.
C23_ExcludedSubRanges ==
    Reconciled =>
        /\ \A k \in 1 .. Len(Calls) :
              /\ Calls[k].pos <= LastPosition
              /\ Calls[k].site = "requery" =>
                    /\ k > 1
                    /\ Calls[k - 1].site = "excluded"
                    /\ Calls[k - 1].pos = Calls[k].pos
                    /\ Calls[k].data.start_date = Calls[k - 1].data.start_date
                    /\ Calls[k].data.end_date = Calls[k - 1].data.end_date
        /\ \A i \in 1 .. LastPosition :
              LET queries == ExcludedQueriesAt(i)
                  excluded == ExcludedSubRanges(i)
              IN  /\ Len(queries) <= Len(excluded) /\ Len(excluded) <= 2
                  /\ \A j \in 1 .. Len(queries) :
                        /\ queries[j].data.start_date = str(excluded[j][1])
                        /\ queries[j].data.end_date = str(excluded[j][2])
                        /\ excluded[j][1] < excluded[j][2]
                  /\ PassedPosition(i) => Len(queries) = Len(excluded)
                  /\ (existing_ranges[i].end_date = None \/ Proposed[i].end_date = None)
                        => Len(queries) <= Len(StartSide(i))

C23_Witness ==
    /\ Decided /\ Decision = Accept
    /\ \E i \in Paired :
          /\ Len(ExcludedQueriesAt(i)) = 2
          /\ Proposed[i].start_date < existing_ranges[i].start_date
          /\ Proposed[i].end_date > existing_ranges[i].end_date
          /\ ExcludedQueriesAt(i)[1].data.end_date.day = existing_ranges[i].start_date
          /\ ExcludedQueriesAt(i)[2].data.start_date.day = existing_ranges[i].end_date

\* ---- C24
\* C24 (as claimed): get_not_available_rule_dates never passes to the
\* recurrence expander a clipped window whose start is after its end: a
\* rule whose interval does not meet the request window is skipped.
C24_DisjointRuleSkipped ==
    RulesRequested =>
        \A k \in 1 .. Len(expanded) :
            expanded[k].start_date.day <= expanded[k].end_date.day

\* ---- C26
\* the update ended with a failure response after the pool was found: the
\* reconciliation rejected it, the oracle call failed, or the request
\* carried no date ranges
UpdateFailed ==
    /\ request.op = "update" /\ pool_exists
    /\ \/ updated_date_range \in {"rejected", "raised"}
       \/ Proposed = << >>
    /\ response.success = FALSE

\* C26 (as claimed): an update that ends with a failure response because
\* the reconciliation rejected it, the oracle call failed or it carried no
\* date ranges leaves the persisted name of the pool as it was.
C26_FailedUpdateKeepsPoolRow ==
    UpdateFailed => pool_name = "pool"

\* ---- C25
\* both updates have ended
BothCompleted == \A s \in Sessions : sessions[s].pc \in {"done", "failed"}

\* the stored active ranges are those of the list, no more and no less
StoredExactly(date_ranges) ==
    /\ Len(pool_date_ranges) = Len(date_ranges)
    /\ \A k \in 1 .. Len(date_ranges) :
          \E j \in 1 .. Len(pool_date_ranges) :
              /\ pool_date_ranges[j].start_date = date_ranges[k].start_date
              /\ pool_date_ranges[j].end_date = date_ranges[k].end_date
              /\ pool_date_ranges[j].capacity = date_ranges[k].capacity

\* the DELETE entries of the history for the row with this id
DeleteEntries(id) ==
    {k \in 1 .. Len(pool_date_range_history) :
        /\ pool_date_range_history[k].action_type = "DELETE"
        /\ pool_date_range_history[k].pool_date_range_id = id}

\* C25 (as claimed): when two concurrent updates of the same pool with the
\* proposed partitions P and Q have both completed, under any interleaving
\* of their steps, the stored active ranges are exactly P or exactly Q and
\* every row of the original snapshot has exactly one DELETE history entry.
C25_LastWriterWins ==
    BothCompleted =>
        /\ \/ StoredExactly(sessions[1].date_ranges)
           \/ StoredExactly(sessions[2].date_ranges)
        /\ \A id \in Ids(existing_ranges) : Cardinality(DeleteEntries(id)) = 1
====
